---- MODULE Spec2Model ----
(***************************************************************************)
(* Model of the contextual chunking and annotation pipeline of ai-rag:     *)
(*   - chunkDocument (utils/chunking): whitespace tokenizer plus the       *)
(*     overlapping window loop, one action per loop iteration;             *)
(*   - ContextualRetrievalService.generateContextsWithRateLimit            *)
(*     (services/context-service.ts): the two-pass, batched synthesizer,   *)
(*     one action per request issue / settle / batch join / delay.         *)
(* Strings are sequences of one-character strings.                         *)
(***************************************************************************)
EXTENDS Integers, Sequences, FiniteSets, TLC

\* ------------------------------------------------------------------ bounds
\* Longest document, in characters.
MaxLen == 6
\* Largest small chunkSize tried (besides the test and default values).
MaxChunkSize == 3
\* Largest small overlap tried (besides the test and default values).
MaxOverlap == 3

\* Largest number of chunks handed to the synthesizer.
MaxChunks == 4
\* Largest number of chunks handed to the unbatched generateContextsForChunks.
MaxPlainChunks == 3
\* Largest batchSize tried.
MaxBatchSize == 2
\* Largest windowSize option tried.
MaxWindowSize == 2

\* --------------------------------------------------------------- constants
\* windowSize used when the option is missing or falsy.
DefaultWindowSize == 2
\* chunkDocument's default parameters.
DefaultChunkSize == 800
DefaultOverlap == 100
\* The parameters the tests pass: chunkDocument(content, 20, 5).
TestChunkSize == 20
TestOverlap == 5

\* One whitespace character stands for the class \s; "a" and "b" are word
\* characters.
Whitespace == {" "}
Alphabet == {"a", "b"} \cup Whitespace

Min(a, b) == IF a < b THEN a ELSE b
Max(a, b) == IF a > b THEN a ELSE b

\* All strings over Alphabet of length at most MaxLen.
Documents == UNION {[1..n -> Alphabet] : n \in 0..MaxLen}

\* The (chunkSize, overlap) pairs tried: chunkSize >= 1, overlap >= 0.
Parameters ==
    ((1..MaxChunkSize) \X (0..MaxOverlap))
        \cup {<<TestChunkSize, TestOverlap>>, <<DefaultChunkSize, DefaultOverlap>>}

\* ------------------------------------------------- String.prototype.split
\* First index >= i of s that holds no whitespace (Len(s)+1 when none).
RECURSIVE SkipWhitespace(_, _)
SkipWhitespace(s, i) ==
    IF i <= Len(s) /\ s[i] \in Whitespace THEN SkipWhitespace(s, i + 1) ELSE i

\* content.split(/\s+/) scanning from index i: cur is the token being read,
\* acc the tokens already closed. Every maximal run of whitespace closes the
\* current token (empty at the very start or end of the string).
RECURSIVE SplitFrom(_, _, _, _)
SplitFrom(s, i, cur, acc) ==
    IF i > Len(s) THEN Append(acc, cur)
    ELSE IF s[i] \in Whitespace
         THEN SplitFrom(s, SkipWhitespace(s, i), <<>>, Append(acc, cur))
         ELSE SplitFrom(s, i + 1, Append(cur, s[i]), acc)

\* Mutant: split(/\s+/).filter(Boolean), dropping the empty tokens.
SplitWhitespace_DropEmpty(s) ==
    SelectSeq(SplitFrom(s, 1, <<>>, <<>>), LAMBDA t : Len(t) > 0)

\* Mutant: split(/\s/), every whitespace character separating two tokens.
RECURSIVE SplitEach(_, _, _, _)
SplitEach(s, i, cur, acc) ==
    IF i > Len(s) THEN Append(acc, cur)
    ELSE IF s[i] \in Whitespace
         THEN SplitEach(s, i + 1, <<>>, Append(acc, cur))
         ELSE SplitEach(s, i + 1, Append(cur, s[i]), acc)

SplitWhitespace_SingleChar(s) == SplitEach(s, 1, <<>>, <<>>)

SplitWhitespace(s) == SplitFrom(s, 1, <<>>, <<>>)

\* Array.prototype.slice(start, end) on 0-based indices: negative indices
\* count from the end, both are clamped to [0, length].
SliceIndex(len, k) == IF k < 0 THEN Max(len + k, 0) ELSE Min(k, len)

Slice(arr, start, end) ==
    SubSeq(arr, SliceIndex(Len(arr), start) + 1, SliceIndex(Len(arr), end))

\* Array.prototype.join(sep) of a sequence of strings.
RECURSIVE Join(_, _)
Join(arr, sep) ==
    IF Len(arr) = 0 THEN <<>>
    ELSE IF Len(arr) = 1 THEN arr[1]
    ELSE arr[1] \o sep \o Join(Tail(arr), sep)

\* ------------------------------------------------------------------ state
VARIABLES
    content,      \* chunkDocument: the document
    chunkSize,    \* chunkDocument: parameter chunkSize
    overlap,      \* chunkDocument: parameter overlap
    words,        \* chunkDocument: const words
    chunks,       \* chunkDocument: const chunks (the result)
    startIndex,   \* chunkDocument: let startIndex
    chunkIndex,   \* chunkDocument: let chunkIndex
    pc,           \* chunkDocument: "start", "loop" or "done"
    options,      \* ContextualRetrievalService: the constructor's options
    windowSize,   \* ContextualRetrievalService: defaultOptions.windowSize
    numChunks,    \* generateContextsWithRateLimit: allChunks.length
    batchSize,    \* generateContextsWithRateLimit: parameter batchSize
    spc,          \* generateContextsWithRateLimit: position in the function
    i,            \* generateContextsWithRateLimit: loop variable i
    promises,     \* the promises handed to Promise.all, by chunk index
    summaries,    \* generateContextsWithRateLimit: const summaries
    contexts,     \* generateContextsWithRateLimit: const contexts
    inflight,     \* requests the external capability has not answered yet
    prompts,      \* what each contextualize request sent, by chunk index
    responses,    \* what the capability answered, by request
    events,       \* requests issued, joins and delays scheduled, in order
    useContextual,        \* ingestion option useContextual
    useRateLimit,         \* ingestion option useRateLimit
    hasContextService,    \* DocumentIngestionService: contextService is set
    ipc,                  \* ingestDocumentWithContextualRetrieval: position
    allChunks,            \* the value bound to the service's parameter allChunks
    ingestContexts,       \* ingestDocumentWithContextualRetrieval: let contexts
    contextualizedChunks, \* ingestDocumentWithContextualRetrieval: let contextualizedChunks
    storeIndex,           \* ingestDocumentWithContextualRetrieval: store loop variable i
    stored,               \* the documents vectorDB.addDocument has stored
    chunkIds,             \* ingestDocumentWithContextualRetrieval: const chunkIds;
                          \* ingestDocuments: const documentIds
    documents             \* ingestDocuments: the contents of parameter documents

chunkVars == <<content, chunkSize, overlap, words, chunks, startIndex, chunkIndex, pc>>
synthVars == <<options, windowSize, numChunks, batchSize, spc, i, promises,
               summaries, contexts, inflight, prompts, responses, events>>
ingestVars == <<useContextual, useRateLimit, hasContextService, ipc, allChunks,
                ingestContexts, contextualizedChunks, storeIndex, stored, chunkIds,
                documents>>
vars == <<chunkVars, synthVars, ingestVars>>

\* The loop of a correct chunkDocument never runs more often than there are
\* tokens; the guard below only stops a loop that makes no progress.
MaxIterations == MaxLen + 2

\* ---------------------------------------------------------- chunkDocument
\* Mutant: the end index is not clamped to the token count.
EndIndex_NoClamp(start, size, total) == start + size

\* const endIndex = Math.min(startIndex + chunkSize, words.length)
EndIndex(start, size, total) == Min(start + size, total)

\* Mutant: join('') for join(' ').
ChunkContent_NoSeparator(ws, start, end) == Join(Slice(ws, start, end), <<>>)

\* const chunkContent = words.slice(startIndex, endIndex).join(' ')
ChunkContent(ws, start, end) == Join(Slice(ws, start, end), <<" ">>)

\* Mutant: the guard against overlap >= chunkSize is missing.
NextStartIndex_NoGuard(start, end, size, ov) == start + (size - ov)

\* Mutant: the guard compares with > instead of >=.
NextStartIndex_StrictGuard(start, end, size, ov) ==
    IF ov > size THEN end ELSE start + (size - ov)

\* Mutant: sign slip, the overlap is added to the advance.
NextStartIndex_PlusOverlap(start, end, size, ov) ==
    IF ov >= size THEN end ELSE start + (size + ov)

\* Mutant: the overlap is ignored, the next chunk starts where this one ends.
NextStartIndex_NoOverlap(start, end, size, ov) == end

\* startIndex += (chunkSize - overlap);
\* if (overlap >= chunkSize) startIndex = endIndex;
NextStartIndex(start, end, size, ov) ==
    IF ov >= size THEN end ELSE start + (size - ov)

\* Mutant: the increment is missing.
NextChunkIndex_Stuck(idx) == idx

\* chunkIndex++
NextChunkIndex(idx) == idx + 1

\* chunkDocument as a function of its arguments: the while loop of lines
\* 257-278 from startIndex = start, chunkIndex = idx, with acc pushed so far.
RECURSIVE ChunkDocumentFrom(_, _, _, _, _, _)
ChunkDocumentFrom(ws, start, idx, size, ov, acc) ==
    IF start < Len(ws) /\ Len(acc) < MaxIterations
    THEN LET end == EndIndex(start, size, Len(ws))
         IN ChunkDocumentFrom(ws, NextStartIndex(start, end, size, ov),
                              NextChunkIndex(idx), size, ov,
                              Append(acc, [content     |-> ChunkContent(ws, start, end),
                                           chunkIndex  |-> idx,
                                           startOffset |-> start,
                                           endOffset   |-> end]))
    ELSE acc

\* chunkDocument(content, chunkSize, overlap), lines 242-281.
ChunkDocument(doc, size, ov) ==
    LET ws == SplitWhitespace(doc)
    IN IF Len(ws) = 0 THEN <<>> ELSE ChunkDocumentFrom(ws, 0, 0, size, ov, <<>>)

\* No service constructed, no synthesizer call made.
SynthIdle ==
    /\ options = <<>>
    /\ windowSize = 0
    /\ numChunks = 0
    /\ batchSize = 0
    /\ spc = "idle"
    /\ i = 0
    /\ promises = <<>>
    /\ summaries = <<>>
    /\ contexts = <<>>
    /\ inflight = {}
    /\ prompts = <<>>
    /\ responses = <<>>
    /\ events = <<>>

\* A JavaScript value that is no call argument yet.
Undefined == [type |-> "undefined", value |-> <<>>]

\* No ingestion call made.
IngestIdle ==
    /\ useContextual = FALSE
    /\ useRateLimit = FALSE
    /\ hasContextService = FALSE
    /\ ipc = "idle"
    /\ allChunks = Undefined
    /\ ingestContexts = <<>>
    /\ contextualizedChunks = <<>>
    /\ storeIndex = 0
    /\ stored = <<>>
    /\ chunkIds = <<>>
    /\ documents = <<>>

ChunkInit ==
    /\ content \in Documents
    /\ \E p \in Parameters : chunkSize = p[1] /\ overlap = p[2]
    /\ words = <<>>
    /\ chunks = <<>>
    /\ startIndex = 0
    /\ chunkIndex = 0
    /\ pc = "start"
    /\ SynthIdle
    /\ IngestIdle

\* Lines 247-255: tokenize, return early on no tokens, initialise the loop.
ChunkStart ==
    /\ pc = "start"
    /\ words' = SplitWhitespace(content)
    /\ chunks' = <<>>
    /\ startIndex' = 0
    /\ chunkIndex' = 0
    /\ pc' = IF Len(words') = 0 THEN "done" ELSE "loop"
    /\ UNCHANGED <<content, chunkSize, overlap>>
    /\ UNCHANGED synthVars
    /\ UNCHANGED ingestVars

\* Lines 257-278: one iteration of the while loop.
ChunkLoop ==
    /\ pc = "loop"
    /\ startIndex < Len(words)
    /\ Len(chunks) < MaxIterations
    /\ LET endIndex == EndIndex(startIndex, chunkSize, Len(words))
       IN /\ chunks' = Append(chunks,
                 [content     |-> ChunkContent(words, startIndex, endIndex),
                  chunkIndex  |-> chunkIndex,
                  startOffset |-> startIndex,
                  endOffset   |-> endIndex])
          /\ chunkIndex' = NextChunkIndex(chunkIndex)
          /\ startIndex' = NextStartIndex(startIndex, endIndex, chunkSize, overlap)
    /\ UNCHANGED <<content, chunkSize, overlap, words, pc>>
    /\ UNCHANGED synthVars
    /\ UNCHANGED ingestVars

\* Lines 257 and 280: the loop condition fails, return chunks.
ChunkReturn ==
    /\ pc = "loop"
    /\ ~(startIndex < Len(words))
    /\ pc' = "done"
    /\ UNCHANGED <<content, chunkSize, overlap, words, chunks, startIndex, chunkIndex>>
    /\ UNCHANGED synthVars
    /\ UNCHANGED ingestVars

ChunkNext == ChunkStart \/ ChunkLoop \/ ChunkReturn

ChunkSpec == ChunkInit /\ [][ChunkNext]_vars

\* A call, once made, runs: the loop is sequential code.
ChunkFairSpec == ChunkSpec /\ WF_vars(ChunkNext)

\* ------------------------------------------- chunkDocumentByCharacters
\* Lines 287-321.  The function has the locals of chunkDocument but for
\* words; it runs on the same variables, with its own values of pc.
MaxCharLen == 4
DefaultChunkSizeChars == 3200
DefaultOverlapChars == 400

\* The strings chunked by characters: all strings up to MaxCharLen.
CharDocuments == {d \in Documents : Len(d) <= MaxCharLen}

\* The (chunkSizeChars, overlapChars) pairs tried.
CharParameters ==
    ((1..MaxChunkSize) \X (0..MaxOverlap))
        \cup {<<DefaultChunkSizeChars, DefaultOverlapChars>>}

\* Mutant: the end is not clamped to content.length.
CharEndIndex_NoClamp(start, size, total) == start + size

\* const endIndex = Math.min(startIndex + chunkSizeChars, content.length)
CharEndIndex(start, size, total) == Min(start + size, total)

\* const chunkContent = content.slice(startIndex, endIndex)
CharChunkContent(doc, start, end) == Slice(doc, start, end)

\* Mutant: the step is the chunk size, the overlap is not subtracted.
CharNextStartIndex_NoOverlap(start, end, size, ov) ==
    IF ov >= size THEN end ELSE start + size

\* startIndex += (chunkSizeChars - overlapChars);
\* if (overlapChars >= chunkSizeChars) startIndex = endIndex;
CharNextStartIndex(start, end, size, ov) ==
    IF ov >= size THEN end ELSE start + (size - ov)

\* Line 294: content.length === 0
CharEmpty(doc) == Len(doc) = 0

CharInit ==
    /\ content \in CharDocuments
    /\ \E p \in CharParameters : chunkSize = p[1] /\ overlap = p[2]
    /\ words = <<>>
    /\ chunks = <<>>
    /\ startIndex = 0
    /\ chunkIndex = 0
    /\ pc = "char_start"
    /\ SynthIdle
    /\ IngestIdle

\* Lines 292-299: return no chunk for the empty string, else initialise.
CharStart ==
    /\ pc = "char_start"
    /\ chunks' = <<>>
    /\ startIndex' = 0
    /\ chunkIndex' = 0
    /\ pc' = IF CharEmpty(content) THEN "char_done" ELSE "char_loop"
    /\ UNCHANGED <<content, chunkSize, overlap, words>>
    /\ UNCHANGED synthVars
    /\ UNCHANGED ingestVars

\* Lines 301-318: one iteration of the while loop.
CharLoop ==
    /\ pc = "char_loop"
    /\ startIndex < Len(content)
    /\ Len(chunks) < MaxIterations
    /\ LET endIndex == CharEndIndex(startIndex, chunkSize, Len(content))
       IN /\ chunks' = Append(chunks,
                 [content     |-> CharChunkContent(content, startIndex, endIndex),
                  chunkIndex  |-> chunkIndex,
                  startOffset |-> startIndex,
                  endOffset   |-> endIndex])
          /\ chunkIndex' = chunkIndex + 1
          /\ startIndex' = CharNextStartIndex(startIndex, endIndex, chunkSize, overlap)
    /\ UNCHANGED <<content, chunkSize, overlap, words, pc>>
    /\ UNCHANGED synthVars
    /\ UNCHANGED ingestVars

\* Lines 301 and 320: the loop condition fails, return chunks.
CharReturn ==
    /\ pc = "char_loop"
    /\ ~(startIndex < Len(content))
    /\ pc' = "char_done"
    /\ UNCHANGED <<content, chunkSize, overlap, words, chunks, startIndex, chunkIndex>>
    /\ UNCHANGED synthVars
    /\ UNCHANGED ingestVars

CharNext == CharStart \/ CharLoop \/ CharReturn

CharSpec == CharInit /\ [][CharNext]_vars

\* ------------------------------------------- ContextualRetrievalService
\* The options objects tried: no windowSize field, or windowSize 0..MaxWindowSize.
OptionsTried == {<<>>} \cup {("windowSize" :> w) : w \in 0..MaxWindowSize}

\* Mutant: the option is taken as given whenever it is present (?? for ||).
ConstructorWindowSize_Nullish(opts) ==
    IF "windowSize" \in DOMAIN opts THEN opts["windowSize"] ELSE DefaultWindowSize

\* windowSize: options.windowSize || 2 (a missing field and 0 are falsy).
ConstructorWindowSize(opts) ==
    IF "windowSize" \in DOMAIN opts /\ opts["windowSize"] # 0
    THEN opts["windowSize"]
    ELSE DefaultWindowSize

\* The strings the external capability answers with: a non-empty text that
\* names the request it answers, or (after trim) the empty string.
EmptyString == <<>>
SummaryText(idx) == <<"S", idx>>
ContextText(idx) == <<"C", idx>>

\* How a request to the external capability can settle.
Outcomes == {"text", "empty", "error"}

\* summarizeChunk after its await: content?.trim() || '' on success, '' in
\* the catch block.
SummarizeResult(idx, outcome) ==
    IF outcome = "text" THEN SummaryText(idx) ELSE EmptyString

\* generateContextForChunk after its await on success: content?.trim() || ''.
ContextResult(idx, outcome) ==
    IF outcome = "text" THEN ContextText(idx) ELSE EmptyString

\* Mutant: the window also takes the chunk's own summary.
RelevantSummaries_Inclusive(previousSummaries, idx, window) ==
    Slice(previousSummaries, Max(0, idx - window), idx + 1)

\* Mutant: no window, every earlier summary is taken.
RelevantSummaries_AllPrevious(previousSummaries, idx, window) ==
    Slice(previousSummaries, 0, idx)

\* Mutant: the window is filled with the last non-empty summaries.
RelevantSummaries_Filtered(previousSummaries, idx, window) ==
    LET nonEmpty == SelectSeq(Slice(previousSummaries, 0, idx),
                              LAMBDA t : t # EmptyString)
    IN Slice(nonEmpty, Max(0, Len(nonEmpty) - window), Len(nonEmpty))

\* const startIdx = Math.max(0, chunkIndex - window);
\* const relevantSummaries = previousSummaries.slice(startIdx, chunkIndex);
RelevantSummaries(previousSummaries, idx, window) ==
    Slice(previousSummaries, Max(0, idx - window), idx)

\* The part of the prompt generateContextForChunk builds from its arguments:
\* the position marker, the listed summaries and the chunk itself.
Prompt(idx, previousSummaries) ==
    [position |-> idx + 1,
     hints    |-> RelevantSummaries(previousSummaries, idx, windowSize),
     chunk    |-> idx]

\* Mutant: the batch misses its last chunk.
BatchIndices_ShortByOne(from, size, total) == from..(Min(from + size, total) - 2)

\* allChunks.slice(i, Math.min(i + batchSize, allChunks.length)), as the
\* chunk indices i + idx that batch.map passes on.
BatchIndices(from, size, total) == from..(Min(from + size, total) - 1)

\* Mutant: the values of a batch are collected last-first.
BatchValues_Reversed(from, size, total) ==
    LET len == Cardinality(BatchIndices(from, size, total))
    IN [k \in 1..len |-> promises[from + len - k].value]

\* The values of the settled promises of a batch, in the order of the batch
\* (what await Promise.all(...) evaluates to).
BatchValues(from, size, total) ==
    [k \in 1..Cardinality(BatchIndices(from, size, total)) |-> promises[from + k - 1].value]

\* Mutant: the batch replaces the accumulated results.
PushAll_Overwrite(acc, values) == values

\* Mutant: the batch is put in front of the accumulated results.
PushAll_Unshift(acc, values) == values \o acc

\* summaries.push(...batchSummaries) / contexts.push(...batchContexts)
PushAll(acc, values) == acc \o values

Pending == [state |-> "pending", value |-> EmptyString]
Fulfilled(v) == [state |-> "fulfilled", value |-> v]
Rejected == [state |-> "rejected", value |-> EmptyString]

\* Mutant: Promise.race/any for Promise.all, the first fulfilment is enough.
AllFulfilled_Any ==
    promises # <<>> /\ \E k \in DOMAIN promises : promises[k].state = "fulfilled"

\* Mutant: Promise.allSettled for Promise.all, rejections do not stop the join.
AllFulfilled_AllSettled == \A k \in DOMAIN promises : promises[k].state # "pending"

AllFulfilled == \A k \in DOMAIN promises : promises[k].state = "fulfilled"
SomeRejected == \E k \in DOMAIN promises : promises[k].state = "rejected"

\* batch.map((chunk, idx) => ...) calls the capability once per chunk of
\* the batch, in index order: the requests of the indices S, ascending.
IssueEvents(kind, S) ==
    [k \in 1..Cardinality(S) |->
        <<"issue", kind, (CHOOSE m \in S : \A n \in S : m <= n) + k - 1>>]

\* Mutant: the delay follows every group, the last included.
MoreGroups_Always(from, size, total) == TRUE

\* if (i + batchSize < allChunks.length): another group follows this one.
MoreGroups(from, size, total) == from + size < total

\* await Promise.all(...) resumes for the group starting at from; then
\* setTimeout is called if (i + batchSize < allChunks.length).
JoinEvents(kind, from, more) ==
    IF more
    THEN <<<<"join", kind, from>>, <<"delay", kind, from>>>>
    ELSE <<<<"join", kind, from>>>>

\* new ContextualRetrievalService(apiKey, options) followed by the call
\* generateContextsWithRateLimit(allChunks, metadata, batchSize, delayMs),
\* up to the first loop head (lines 14-25, 170-180).
SynthInit ==
    /\ content = <<>>
    /\ chunkSize = 0
    /\ overlap = 0
    /\ words = <<>>
    /\ chunks = <<>>
    /\ startIndex = 0
    /\ chunkIndex = 0
    /\ pc = "idle"
    /\ options \in OptionsTried
    /\ windowSize = ConstructorWindowSize(options)
    /\ numChunks \in 0..MaxChunks
    /\ batchSize \in 1..MaxBatchSize
    /\ spc = "pass1"
    /\ i = 0
    /\ promises = <<>>
    /\ summaries = <<>>
    /\ contexts = <<>>
    /\ inflight = {}
    /\ prompts = <<>>
    /\ responses = <<>>
    /\ events = <<>>
    /\ IngestIdle

config == <<options, windowSize, numChunks, batchSize>>

\* Lines 182-188: the loop condition holds; every summarizeChunk of the
\* batch runs up to its await, which issues its request.
Pass1Issue ==
    /\ spc = "pass1"
    /\ i < numChunks
    /\ LET batch == BatchIndices(i, batchSize, numChunks)
       IN /\ promises' = [k \in batch |-> Pending]
          /\ inflight' = inflight \cup {<<"summarize", k>> : k \in batch}
    /\ spc' = "pass1_wait"
    /\ UNCHANGED <<config, i, summaries, contexts, prompts, responses>>
    /\ events' = events \o IssueEvents("summarize", BatchIndices(i, batchSize, numChunks))
    /\ UNCHANGED chunkVars
    /\ UNCHANGED ingestVars

\* Mutant: summarizeChunk rethrows in its catch block.
SummarizeSettle_Rethrow(idx, outcome) ==
    /\ <<"summarize", idx>> \in inflight
    /\ inflight' = inflight \ {<<"summarize", idx>>}
    /\ responses' = (<<"summarize", idx>> :> outcome) @@ responses
    /\ promises' =
          [promises EXCEPT ![idx] =
              IF outcome = "error" THEN Rejected
              ELSE Fulfilled(SummarizeResult(idx, outcome))]
    /\ UNCHANGED <<config, spc, i, summaries, contexts, prompts>>
    /\ UNCHANGED events
    /\ UNCHANGED chunkVars
    /\ UNCHANGED ingestVars

\* Mutant: summarizeChunk sends the request again when the call threw.
SummarizeSettle_Retry(idx, outcome) ==
    /\ <<"summarize", idx>> \in inflight
    /\ IF outcome = "error"
       THEN /\ events' = Append(events, <<"issue", "summarize", idx>>)
            /\ UNCHANGED <<inflight, responses, promises>>
       ELSE /\ inflight' = inflight \ {<<"summarize", idx>>}
            /\ responses' = (<<"summarize", idx>> :> outcome) @@ responses
            /\ promises' = [promises EXCEPT ![idx] = Fulfilled(SummarizeResult(idx, outcome))]
            /\ UNCHANGED events
    /\ UNCHANGED <<config, spc, i, summaries, contexts, prompts>>
    /\ UNCHANGED chunkVars
    /\ UNCHANGED ingestVars

\* Lines 39-59: the capability answers one summarize request; summarizeChunk
\* resolves with the trimmed text, or with '' when the call threw.
SummarizeSettle(idx, outcome) ==
    /\ <<"summarize", idx>> \in inflight
    /\ inflight' = inflight \ {<<"summarize", idx>>}
    /\ responses' = (<<"summarize", idx>> :> outcome) @@ responses
    /\ promises' = [promises EXCEPT ![idx] = Fulfilled(SummarizeResult(idx, outcome))]
    /\ UNCHANGED <<config, spc, i, summaries, contexts, prompts>>
    /\ UNCHANGED events
    /\ UNCHANGED chunkVars
    /\ UNCHANGED ingestVars

\* Lines 186-194: Promise.all resolves, the batch is pushed; the delay
\* follows unless this was the last batch.
Pass1Join ==
    /\ spc = "pass1_wait"
    /\ AllFulfilled
    /\ summaries' = PushAll(summaries, BatchValues(i, batchSize, numChunks))
    /\ promises' = <<>>
    /\ IF MoreGroups(i, batchSize, numChunks)
       THEN spc' = "pass1_delay" /\ i' = i
       ELSE spc' = "pass1" /\ i' = i + batchSize
    /\ UNCHANGED <<config, contexts, inflight, prompts, responses>>
    /\ events' = events \o JoinEvents("summarize", i, MoreGroups(i, batchSize, numChunks))
    /\ UNCHANGED chunkVars
    /\ UNCHANGED ingestVars

\* Lines 193 and 182: the timer fires, i += batchSize.
Pass1Delay ==
    /\ spc = "pass1_delay"
    /\ spc' = "pass1"
    /\ i' = i + batchSize
    /\ UNCHANGED <<config, promises, summaries, contexts, inflight, prompts, responses>>
    /\ UNCHANGED events
    /\ UNCHANGED chunkVars
    /\ UNCHANGED ingestVars

\* Lines 182, 196-200: the first loop ends, pass 2 starts with i = 0.
Pass1Done ==
    /\ spc = "pass1"
    /\ ~(i < numChunks)
    /\ spc' = "pass2"
    /\ i' = 0
    /\ contexts' = <<>>
    /\ UNCHANGED <<config, promises, summaries, inflight, prompts, responses>>
    /\ UNCHANGED events
    /\ UNCHANGED chunkVars
    /\ UNCHANGED ingestVars

\* Lines 202-210 and 76-116: the loop condition holds; every
\* generateContextForChunk of the batch builds its prompt from the summaries
\* and issues its request.
Pass2Issue ==
    /\ spc = "pass2"
    /\ i < numChunks
    /\ LET batch == BatchIndices(i, batchSize, numChunks)
       IN /\ promises' = [k \in batch |-> Pending]
          /\ inflight' = inflight \cup {<<"contextualize", k>> : k \in batch}
          /\ prompts' = [k \in batch |-> Prompt(k, summaries)] @@ prompts
    /\ spc' = "pass2_wait"
    /\ UNCHANGED <<config, i, summaries, contexts, responses>>
    /\ events' = events \o IssueEvents("contextualize", BatchIndices(i, batchSize, numChunks))
    /\ UNCHANGED chunkVars
    /\ UNCHANGED ingestVars

\* Mutant: generateContextForChunk returns '' in its catch block, as
\* summarizeChunk does.
ContextualizeSettle_Swallow(idx, outcome) ==
    /\ <<"contextualize", idx>> \in inflight
    /\ inflight' = inflight \ {<<"contextualize", idx>>}
    /\ responses' = (<<"contextualize", idx>> :> outcome) @@ responses
    /\ promises' = [promises EXCEPT ![idx] = Fulfilled(ContextResult(idx, outcome))]
    /\ UNCHANGED <<config, spc, i, summaries, contexts, prompts>>
    /\ UNCHANGED events
    /\ UNCHANGED chunkVars
    /\ UNCHANGED ingestVars

\* Lines 102-122: the capability answers one contextualize request;
\* generateContextForChunk resolves with the trimmed text or rethrows.
ContextualizeSettle(idx, outcome) ==
    /\ <<"contextualize", idx>> \in inflight
    /\ inflight' = inflight \ {<<"contextualize", idx>>}
    /\ responses' = (<<"contextualize", idx>> :> outcome) @@ responses
    /\ promises' =
          [promises EXCEPT ![idx] =
              IF outcome = "error" THEN Rejected
              ELSE Fulfilled(ContextResult(idx, outcome))]
    /\ UNCHANGED <<config, spc, i, summaries, contexts, prompts>>
    /\ UNCHANGED events
    /\ UNCHANGED chunkVars
    /\ UNCHANGED ingestVars

\* Lines 206-216: Promise.all resolves, the batch is pushed; the delay
\* follows unless this was the last batch.
Pass2Join ==
    /\ spc = "pass2_wait"
    /\ AllFulfilled
    /\ contexts' = PushAll(contexts, BatchValues(i, batchSize, numChunks))
    /\ promises' = <<>>
    /\ IF MoreGroups(i, batchSize, numChunks)
       THEN spc' = "pass2_delay" /\ i' = i
       ELSE spc' = "pass2" /\ i' = i + batchSize
    /\ UNCHANGED <<config, summaries, inflight, prompts, responses>>
    /\ events' = events \o JoinEvents("contextualize", i, MoreGroups(i, batchSize, numChunks))
    /\ UNCHANGED chunkVars
    /\ UNCHANGED ingestVars

\* Lines 215 and 202: the timer fires, i += batchSize.
Pass2Delay ==
    /\ spc = "pass2_delay"
    /\ spc' = "pass2"
    /\ i' = i + batchSize
    /\ UNCHANGED <<config, promises, summaries, contexts, inflight, prompts, responses>>
    /\ UNCHANGED events
    /\ UNCHANGED chunkVars
    /\ UNCHANGED ingestVars

\* Line 206: Promise.all rejects with the first rejection, the await throws
\* and nothing catches it: the call rejects.
Pass2Reject ==
    /\ spc = "pass2_wait"
    /\ SomeRejected
    /\ spc' = "rejected"
    /\ UNCHANGED <<config, i, promises, summaries, contexts, inflight, prompts, responses>>
    /\ UNCHANGED events
    /\ UNCHANGED chunkVars
    /\ UNCHANGED ingestVars

\* Lines 202, 218-220: the second loop ends, return contexts.
Pass2Return ==
    /\ spc = "pass2"
    /\ ~(i < numChunks)
    /\ spc' = "returned"
    /\ UNCHANGED <<config, i, promises, summaries, contexts, inflight, prompts, responses>>
    /\ UNCHANGED events
    /\ UNCHANGED chunkVars
    /\ UNCHANGED ingestVars

CapabilityAnswers ==
    \E idx \in 0..(MaxChunks - 1), outcome \in Outcomes :
        \/ SummarizeSettle(idx, outcome)
        \/ ContextualizeSettle(idx, outcome)

SynthNext ==
    \/ Pass1Issue
    \/ Pass1Join
    \/ Pass1Delay
    \/ Pass1Done
    \/ Pass2Issue
    \/ Pass2Join
    \/ Pass2Delay
    \/ Pass2Reject
    \/ Pass2Return
    \/ CapabilityAnswers

SynthSpec == SynthInit /\ [][SynthNext]_vars

\* A call, once made, runs, and every request to the capability is answered
\* (with a text, with nothing, or with an error).
MaxShortChunks == 3
ShortInit == SynthInit /\ numChunks <= MaxShortChunks
SynthFairSpec == ShortInit /\ [][SynthNext]_vars /\ WF_vars(SynthNext)

\* The same calls, on at most MaxShortChunks chunks, with no fairness.
ShortSynthSpec == ShortInit /\ [][SynthNext]_vars

\* ------------------------------------------------ generateContextsForChunks
\* new ContextualRetrievalService(apiKey, options) followed by the call
\* generateContextsForChunks(allChunks, metadata), lines 14-25, 132-138.
\* This function has no batchSize parameter.
PlainInit ==
    /\ content = <<>>
    /\ chunkSize = 0
    /\ overlap = 0
    /\ words = <<>>
    /\ chunks = <<>>
    /\ startIndex = 0
    /\ chunkIndex = 0
    /\ pc = "idle"
    /\ options \in OptionsTried
    /\ windowSize = ConstructorWindowSize(options)
    /\ numChunks \in 0..MaxPlainChunks
    /\ batchSize = 0
    /\ spc = "plain"
    /\ i = 0
    /\ promises = <<>>
    /\ summaries = <<>>
    /\ contexts = <<>>
    /\ inflight = {}
    /\ prompts = <<>>
    /\ responses = <<>>
    /\ events = <<>>
    /\ IngestIdle

\* Mutant: the chunks are taken two at a time, only the first two at once.
AllIndices_FirstPair(total) == 0..(Min(2, total) - 1)

\* allChunks.map((chunk, index) => ...): the indices of all chunks.
AllIndices(total) == 0..(total - 1)

\* The values of the settled promises of allChunks.map(...), in input order.
AllValues(total) == [k \in 1..total |-> promises[k - 1].value]

\* Lines 139-144: every summarizeChunk runs up to its await, which issues
\* its request; then the function awaits Promise.all.
PlainPass1Issue ==
    /\ spc = "plain"
    /\ promises' = [k \in AllIndices(numChunks) |-> Pending]
    /\ inflight' = inflight \cup {<<"summarize", k>> : k \in AllIndices(numChunks)}
    /\ spc' = "plain1_wait"
    /\ UNCHANGED <<config, i, summaries, contexts, prompts, responses>>
    /\ events' = events \o IssueEvents("summarize", AllIndices(numChunks))
    /\ UNCHANGED chunkVars
    /\ UNCHANGED ingestVars

\* Lines 144-152: Promise.all of the summaries resolves; every
\* generateContextForChunk builds its prompt from them and issues its
\* request; then the function awaits Promise.all.
PlainPass2Issue ==
    /\ spc = "plain1_wait"
    /\ AllFulfilled
    /\ summaries' = AllValues(numChunks)
    /\ promises' = [k \in AllIndices(numChunks) |-> Pending]
    /\ inflight' = inflight \cup {<<"contextualize", k>> : k \in AllIndices(numChunks)}
    /\ prompts' = [k \in AllIndices(numChunks) |-> Prompt(k, summaries')]
    /\ spc' = "plain2_wait"
    /\ UNCHANGED <<config, i, contexts, responses>>
    /\ events' = events \o JoinEvents("summarize", 0, FALSE)
                      \o IssueEvents("contextualize", AllIndices(numChunks))
    /\ UNCHANGED chunkVars
    /\ UNCHANGED ingestVars

\* Lines 152-155: Promise.all of the contexts resolves, return contexts.
PlainReturn ==
    /\ spc = "plain2_wait"
    /\ AllFulfilled
    /\ contexts' = AllValues(numChunks)
    /\ promises' = <<>>
    /\ spc' = "returned"
    /\ UNCHANGED <<config, i, summaries, inflight, prompts, responses>>
    /\ events' = events \o JoinEvents("contextualize", 0, FALSE)
    /\ UNCHANGED chunkVars
    /\ UNCHANGED ingestVars

\* Lines 152, 156-159: Promise.all rejects with the first rejection; the
\* catch block logs and rethrows.
PlainReject ==
    /\ spc = "plain2_wait"
    /\ SomeRejected
    /\ spc' = "rejected"
    /\ UNCHANGED <<config, i, promises, summaries, contexts, inflight, prompts, responses>>
    /\ UNCHANGED events
    /\ UNCHANGED chunkVars
    /\ UNCHANGED ingestVars

PlainNext ==
    \/ PlainPass1Issue
    \/ PlainPass2Issue
    \/ PlainReturn
    \/ PlainReject
    \/ CapabilityAnswers

PlainSpec == PlainInit /\ [][PlainNext]_vars

\* Either entry point of the two-pass synthesizer is called.
TwoPassInit == SynthInit \/ PlainInit

TwoPassNext ==
    \/ Pass1Issue
    \/ Pass1Join
    \/ Pass1Delay
    \/ Pass1Done
    \/ Pass2Issue
    \/ Pass2Join
    \/ Pass2Delay
    \/ Pass2Reject
    \/ Pass2Return
    \/ PlainPass1Issue
    \/ PlainPass2Issue
    \/ PlainReturn
    \/ PlainReject
    \/ CapabilityAnswers

TwoPassSpec == TwoPassInit /\ [][TwoPassNext]_vars

\* ============================================= DocumentIngestionService
\* ingestDocumentWithContextualRetrieval of document-ingestion.ts, with the
\* calls it makes on ContextualRetrievalService of context-service.ts.  The
\* language checks no argument at run time, so an argument is a value with
\* its run-time type, bound to the parameter at its position.

MaxIngestLen == 3
IngestBatchSize == 10

\* The documents ingested: all strings over Alphabet up to MaxIngestLen.
IngestDocuments == {d \in Documents : Len(d) <= MaxIngestLen}

StringValue(s) == [type |-> "string", value |-> s]
ArrayValue(a) == [type |-> "array", value |-> a]
ObjectValue == [type |-> "object", value |-> <<>>]
NumberValue(n) == [type |-> "number", value |-> n]

\* .length of a string or of an array.
Length(v) == Len(v.value)

\* Array.prototype.map exists; String.prototype has no map.
HasMap(v) == v.type = "array"

\* chunks.map(c => c.content)
ChunkContents(cs) == [k \in 1..Len(cs) |-> cs[k].content]

\* contexts[i] || '' (k is the 1-based position).
ContextAt(ctxs, k) == IF k \in DOMAIN ctxs THEN ctxs[k] ELSE EmptyString

\* Lines 153-156: context ? `${context}\n\n${chunk.content}` : chunk.content
Contextualized(context, chunkContent) ==
    IF context # EmptyString
    THEN context \o <<"\n", "\n">> \o chunkContent
    ELSE chunkContent

Contextualized_Bare(context, chunkContent) == chunkContent

\* Lines 138-143 and 145-149: the arguments of the two calls, in order.
RateLimitArguments(doc, cs) ==
    <<StringValue(doc), ArrayValue(ChunkContents(cs)), ObjectValue,
      NumberValue(IngestBatchSize)>>
ForChunksArguments(doc, cs) ==
    <<StringValue(doc), ArrayValue(ChunkContents(cs)), ObjectValue>>

\* context-service.ts lines 132-160, generateContextsForChunks(allChunks,
\* metadata): allChunks.map of line 141 is inside the try, whose catch
\* rethrows; a value without map makes the call reject with a TypeError.
GenerateContextsForChunks(args) ==
    IF HasMap(args[1])
    THEN [outcome |-> "requests", value |-> <<>>]
    ELSE [outcome |-> "TypeError", value |-> <<>>]

\* context-service.ts lines 170-221, generateContextsWithRateLimit(allChunks,
\* metadata, batchSize, delayMs): with allChunks.length 0 neither loop runs
\* and [] is returned; otherwise batch = allChunks.slice(...) of line 183
\* is of the type of allChunks and batch.map of line 187 needs an array.  A
\* batchSize that is no number makes i + batchSize no number: the slice is
\* empty, no request is made, and i < allChunks.length fails after one turn.
GenerateContextsWithRateLimit(args) ==
    IF Length(args[1]) = 0
    THEN [outcome |-> "returns", value |-> <<>>]
    ELSE IF ~HasMap(args[1])
    THEN [outcome |-> "TypeError", value |-> <<>>]
    ELSE IF args[3].type # "number"
    THEN [outcome |-> "returns", value |-> <<>>]
    ELSE [outcome |-> "requests", value |-> <<>>]

\* Lines 136-149: which method the ingestion calls, on which arguments.
ContextServiceCall(doc, cs, rateLimit) ==
    IF rateLimit
    THEN GenerateContextsWithRateLimit(RateLimitArguments(doc, cs))
    ELSE GenerateContextsForChunks(ForChunksArguments(doc, cs))

\* Lines 173-189: the document stored for chunk k (1-based).
StoredDocument(cs, ctxChunks, ctxs, k) ==
    [content          |-> ctxChunks[k],
     isChunk          |-> TRUE,
     chunkIndex       |-> cs[k].chunkIndex,
     originalContent  |-> cs[k].content,
     contextualPrefix |-> ContextAt(ctxs, k)]

\* A call of ingestDocumentWithContextualRetrieval(content, metadata,
\* options) on a service built with or without a context service.
IngestInit ==
    /\ content \in IngestDocuments
    /\ \E p \in Parameters : chunkSize = p[1] /\ overlap = p[2]
    /\ words = <<>>
    /\ chunks = <<>>
    /\ startIndex = 0
    /\ chunkIndex = 0
    /\ pc = "idle"
    /\ SynthIdle
    /\ useContextual \in BOOLEAN
    /\ useRateLimit \in BOOLEAN
    /\ hasContextService \in BOOLEAN
    /\ ipc = "chunk"
    /\ allChunks = Undefined
    /\ ingestContexts = <<>>
    /\ contextualizedChunks = <<>>
    /\ storeIndex = 0
    /\ stored = <<>>
    /\ chunkIds = <<>>
    /\ documents = <<>>

ingestConfig == <<content, chunkSize, overlap, useContextual, useRateLimit,
                  hasContextService, documents>>

\* Lines 125-136: chunk the document; the bare contents are the default.
IngestChunk ==
    /\ ipc = "chunk"
    /\ chunks' = ChunkDocument(content, chunkSize, overlap)
    /\ contextualizedChunks' = ChunkContents(chunks')
    /\ ingestContexts' = <<>>
    /\ ipc' = IF useContextual /\ hasContextService THEN "contextualize" ELSE "embed"
    /\ UNCHANGED <<allChunks, storeIndex, stored, chunkIds>>
    /\ UNCHANGED <<words, startIndex, chunkIndex, pc>>
    /\ UNCHANGED ingestConfig
    /\ UNCHANGED synthVars

\* Lines 136-159: the call on the context service and, when it returns,
\* the prepending; a rejected call is rethrown by the catch of line 199.
IngestContextualize ==
    /\ ipc = "contextualize"
    /\ LET r == ContextServiceCall(content, chunks, useRateLimit) IN
        /\ allChunks' = (IF useRateLimit
                         THEN RateLimitArguments(content, chunks)
                         ELSE ForChunksArguments(content, chunks))[1]
        /\ ingestContexts' = r.value
        /\ contextualizedChunks' =
             IF r.outcome = "returns"
             THEN [k \in 1..Len(chunks) |->
                     Contextualized(ContextAt(r.value, k), chunks[k].content)]
             ELSE contextualizedChunks
        /\ ipc' = CASE r.outcome = "returns"   -> "embed"
                    [] r.outcome = "TypeError" -> "thrown"
                    [] OTHER                   -> "requests"
    /\ UNCHANGED <<storeIndex, stored, chunkIds>>
    /\ UNCHANGED <<words, chunks, startIndex, chunkIndex, pc>>
    /\ UNCHANGED ingestConfig
    /\ UNCHANGED synthVars

\* Lines 161-169: embeddingService.generateEmbeddings(contextualizedChunks)
\* resolves with one embedding per text, or rejects.
IngestEmbed(ok) ==
    /\ ipc = "embed"
    /\ ipc' = IF ok THEN "store" ELSE "thrown"
    /\ storeIndex' = 0
    /\ UNCHANGED <<allChunks, ingestContexts, contextualizedChunks, stored, chunkIds>>
    /\ UNCHANGED <<words, chunks, startIndex, chunkIndex, pc>>
    /\ UNCHANGED ingestConfig
    /\ UNCHANGED synthVars

\* Lines 171-193: one turn of the store loop; vectorDB.addDocument stores
\* the document, or rejects and ends the call.
IngestStore(ok) ==
    /\ ipc = "store"
    /\ storeIndex < Len(chunks)
    /\ IF ok
       THEN /\ stored' = Append(stored,
                   StoredDocument(chunks, contextualizedChunks, ingestContexts,
                                  storeIndex + 1))
            /\ chunkIds' = Append(chunkIds, storeIndex + 1)
            /\ storeIndex' = storeIndex + 1
            /\ ipc' = ipc
       ELSE /\ ipc' = "thrown"
            /\ UNCHANGED <<stored, chunkIds, storeIndex>>
    /\ UNCHANGED <<allChunks, ingestContexts, contextualizedChunks>>
    /\ UNCHANGED <<words, chunks, startIndex, chunkIndex, pc>>
    /\ UNCHANGED ingestConfig
    /\ UNCHANGED synthVars

\* Lines 171 and 195-198: the loop condition fails; chunkIds is returned.
IngestReturn ==
    /\ ipc = "store"
    /\ storeIndex >= Len(chunks)
    /\ ipc' = "returned"
    /\ UNCHANGED <<allChunks, ingestContexts, contextualizedChunks, storeIndex,
                   stored, chunkIds>>
    /\ UNCHANGED <<words, chunks, startIndex, chunkIndex, pc>>
    /\ UNCHANGED ingestConfig
    /\ UNCHANGED synthVars

IngestNext ==
    \/ IngestChunk
    \/ IngestContextualize
    \/ \E ok \in BOOLEAN : IngestEmbed(ok)
    \/ \E ok \in BOOLEAN : IngestStore(ok)
    \/ IngestReturn

IngestSpec == IngestInit /\ [][IngestNext]_vars

\* ------------------------------------------------------ ingestDocuments
\* document-ingestion.ts lines 46-81.  The stored documents are kept in
\* stored, the ids pushed in chunkIds, the loop variable in storeIndex.
MaxDocuments == 3

\* The contents of the documents handed to ingestDocuments.
DocumentContents == {<<"a">>, <<"b">>}

\* Lines 57-67: documentObjects[k] (k is the 1-based position).
DocumentObject(docs, k) == [content |-> docs[k]]

DocsInit ==
    /\ content = <<>>
    /\ chunkSize = 0
    /\ overlap = 0
    /\ words = <<>>
    /\ chunks = <<>>
    /\ startIndex = 0
    /\ chunkIndex = 0
    /\ pc = "idle"
    /\ SynthIdle
    /\ useContextual = FALSE
    /\ useRateLimit = FALSE
    /\ hasContextService = FALSE
    /\ ipc = "docs_embed"
    /\ allChunks = Undefined
    /\ ingestContexts = <<>>
    /\ contextualizedChunks = <<>>
    /\ storeIndex = 0
    /\ stored = <<>>
    /\ chunkIds = <<>>
    /\ documents \in UNION {[1..n -> DocumentContents] : n \in 0..MaxDocuments}

\* Lines 49-67: embeddingService.generateEmbeddings(contents) resolves with
\* one embedding per document, or rejects.
DocsEmbed(ok) ==
    /\ ipc = "docs_embed"
    /\ ipc' = IF ok THEN "docs_store" ELSE "thrown"
    /\ storeIndex' = 0
    /\ UNCHANGED <<allChunks, ingestContexts, contextualizedChunks, stored, chunkIds>>
    /\ UNCHANGED <<words, chunks, startIndex, chunkIndex, pc>>
    /\ UNCHANGED ingestConfig
    /\ UNCHANGED synthVars

\* Mutant: a failed addDocument removes what the call has stored so far.
DocsStore_Rollback(ok) ==
    /\ ipc = "docs_store"
    /\ storeIndex < Len(documents)
    /\ IF ok
       THEN /\ stored' = Append(stored, DocumentObject(documents, storeIndex + 1))
            /\ chunkIds' = Append(chunkIds, storeIndex + 1)
            /\ storeIndex' = storeIndex + 1
            /\ ipc' = ipc
       ELSE /\ ipc' = "thrown"
            /\ stored' = <<>>
            /\ UNCHANGED <<chunkIds, storeIndex>>
    /\ UNCHANGED <<allChunks, ingestContexts, contextualizedChunks>>
    /\ UNCHANGED <<words, chunks, startIndex, chunkIndex, pc>>
    /\ UNCHANGED ingestConfig
    /\ UNCHANGED synthVars

\* Lines 70-73: one turn of the store loop; vectorDB.addDocument stores
\* the document, or rejects and the catch of lines 77-80 rethrows.
DocsStore(ok) ==
    /\ ipc = "docs_store"
    /\ storeIndex < Len(documents)
    /\ IF ok
       THEN /\ stored' = Append(stored, DocumentObject(documents, storeIndex + 1))
            /\ chunkIds' = Append(chunkIds, storeIndex + 1)
            /\ storeIndex' = storeIndex + 1
            /\ ipc' = ipc
       ELSE /\ ipc' = "thrown"
            /\ UNCHANGED <<stored, chunkIds, storeIndex>>
    /\ UNCHANGED <<allChunks, ingestContexts, contextualizedChunks>>
    /\ UNCHANGED <<words, chunks, startIndex, chunkIndex, pc>>
    /\ UNCHANGED ingestConfig
    /\ UNCHANGED synthVars

\* Lines 70 and 75-76: the loop condition fails; documentIds is returned.
DocsReturn ==
    /\ ipc = "docs_store"
    /\ storeIndex >= Len(documents)
    /\ ipc' = "returned"
    /\ UNCHANGED <<allChunks, ingestContexts, contextualizedChunks, storeIndex,
                   stored, chunkIds>>
    /\ UNCHANGED <<words, chunks, startIndex, chunkIndex, pc>>
    /\ UNCHANGED ingestConfig
    /\ UNCHANGED synthVars

\* Either ingestion method of DocumentIngestionService is called.
StoreInit == IngestInit \/ DocsInit

StoreNext ==
    \/ IngestChunk
    \/ IngestContextualize
    \/ \E ok \in BOOLEAN : IngestEmbed(ok)
    \/ \E ok \in BOOLEAN : IngestStore(ok)
    \/ IngestReturn
    \/ \E ok \in BOOLEAN : DocsEmbed(ok)
    \/ \E ok \in BOOLEAN : DocsStore(ok)
    \/ DocsReturn

StoreSpec == StoreInit /\ [][StoreNext]_vars

\* ============================================================ properties
\* The result of a finished call.
Returned == pc = "done"

\* Interval [startOffset, endOffset) of a chunk, as a set of token indices.
Interval(c) == c.startOffset..(c.endOffset - 1)

\* words.slice(-n) and words.slice(0, n) of a chunk's content, re-tokenized
\* as the tests do (content.split(/\s+/)).
LastTokens(c, n) ==
    LET t == SplitWhitespace(c.content) IN Slice(t, 0 - n, Len(t))
FirstTokens(c, n) ==
    LET t == SplitWhitespace(c.content) IN Slice(t, 0, n)

WhitespaceOnly(s) == Len(s) > 0 /\ \A n \in 1..Len(s) : s[n] \in Whitespace

\* ------------------------------------------------------------------- C1
\* C1: chunkDocument terminates for every document and every chunkSize >= 1,
\* overlap >= 0 (overlap >= chunkSize included): every call eventually
\* leaves the loop and returns.
C1_Terminates == <>Returned

C1_Witness ==
    /\ Returned
    /\ overlap >= chunkSize
    /\ Len(chunks) >= 2

\* ------------------------------------------------------------------- C2
\* C2: in the chunk sequence (at every iteration and on return) startOffset
\* is strictly increasing, for overlap < chunkSize and overlap >= chunkSize.
C2_StartOffsetsIncrease ==
    \A n \in 2..Len(chunks) : chunks[n].startOffset > chunks[n - 1].startOffset

C2_Witness ==
    /\ Returned
    /\ overlap > chunkSize
    /\ Len(chunks) >= 3

\* ------------------------------------------------------------------- C3
\* C3: for 0 <= overlap < chunkSize the union of the returned chunks'
\* intervals [startOffset, endOffset) is exactly [0, L), L the token count.
C3_Coverage ==
    (Returned /\ overlap < chunkSize /\ Len(words) >= 1)
        => UNION {Interval(chunks[n]) : n \in 1..Len(chunks)} = 0..(Len(words) - 1)

C3_Witness ==
    /\ Returned
    /\ overlap >= 1
    /\ overlap < chunkSize
    /\ Len(chunks) >= 2
    /\ Len(words) >= 4

\* ------------------------------------------------------------------- C4
\* C4 as stated: with more than one chunk and overlap >= 1, the last
\* `overlap` tokens of every chunk equal the first `overlap` tokens of the
\* next chunk.
C4_OverlapAsStated ==
    (Returned /\ Len(chunks) > 1 /\ overlap >= 1)
        => \A n \in 1..(Len(chunks) - 1) :
              LastTokens(chunks[n], overlap) = FirstTokens(chunks[n + 1], overlap)

\* C4 amended: with 1 <= overlap < chunkSize, the last `overlap` tokens of
\* every chunk that holds chunkSize tokens equal the first `overlap` tokens
\* of the next chunk.
C4_OverlapOfFullChunks ==
    (Returned /\ overlap >= 1 /\ overlap < chunkSize)
        => \A n \in 1..(Len(chunks) - 1) :
              (chunks[n].endOffset - chunks[n].startOffset = chunkSize)
                  => LastTokens(chunks[n], overlap) = FirstTokens(chunks[n + 1], overlap)

C4_Witness ==
    /\ Returned
    /\ overlap >= 1
    /\ overlap < chunkSize
    /\ Len(chunks) >= 2
    /\ chunks[1].endOffset - chunks[1].startOffset = chunkSize
    /\ LastTokens(chunks[1], overlap) = FirstTokens(chunks[2], overlap)
    /\ Len(LastTokens(chunks[1], overlap)) = overlap
    /\ chunks[1].content # chunks[2].content

\* ------------------------------------------------------------------- C5
\* C5: for a non-empty document the returned sequence is non-empty and its
\* chunkIndex values are 0, 1, ..., N-1 in order.
C5_ChunkIndexInOrder ==
    (Returned /\ Len(content) > 0)
        => /\ Len(chunks) >= 1
           /\ \A n \in 1..Len(chunks) : chunks[n].chunkIndex = n - 1

C5_Witness ==
    /\ Returned
    /\ Len(content) > 0
    /\ Len(chunks) >= 3

\* ------------------------------------------------------------------- C6
\* C6 as stated: chunkDocument("", 20, 5) returns exactly one chunk with
\* content "", chunkIndex 0, startOffset 0 and endOffset 0.
C6_EmptyAsStated ==
    (Returned /\ content = <<>> /\ chunkSize = TestChunkSize /\ overlap = TestOverlap)
        => /\ Len(chunks) = 1
           /\ chunks[1].content = <<>>
           /\ chunks[1].chunkIndex = 0
           /\ chunks[1].startOffset = 0
           /\ chunks[1].endOffset = 0

\* C6 amended: chunkDocument("", 20, 5) returns exactly one chunk with
\* content "", chunkIndex 0, startOffset 0 and endOffset 1: the one empty
\* token occupies [0, 1).
C6_EmptyDocument ==
    (Returned /\ content = <<>> /\ chunkSize = TestChunkSize /\ overlap = TestOverlap)
        => /\ Len(chunks) = 1
           /\ chunks[1].content = <<>>
           /\ chunks[1].chunkIndex = 0
           /\ chunks[1].startOffset = 0
           /\ chunks[1].endOffset = 1

C6_Witness ==
    /\ Returned
    /\ content = <<>>
    /\ chunkSize = TestChunkSize
    /\ overlap = TestOverlap
    /\ Len(chunks) = 1

\* ------------------------------------------------------------------- C7
\* C7 as stated: a whitespace-only document tokenizes to exactly one token
\* and chunkDocument returns exactly one chunk for it, for every
\* chunkSize >= 1 and overlap >= 0.
C7_WhitespaceAsStated ==
    (Returned /\ WhitespaceOnly(content))
        => Len(words) = 1 /\ Len(chunks) = 1

\* The first advance of the window reaches past the second token.
C7_OneStepCoversTwo ==
    /\ chunkSize >= 2
    /\ (overlap >= chunkSize \/ chunkSize - overlap >= 2)

\* C7 amended: a whitespace-only document tokenizes to exactly two empty
\* tokens, and chunkDocument returns exactly one chunk for it (content " ")
\* when chunkSize >= 2 and (overlap >= chunkSize or chunkSize - overlap >= 2),
\* as with the defaults, and two chunks otherwise.
C7_WhitespaceDocument ==
    (Returned /\ WhitespaceOnly(content))
        => /\ words = << <<>>, <<>> >>
           /\ IF C7_OneStepCoversTwo
              THEN Len(chunks) = 1 /\ chunks[1].content = <<" ">>
              ELSE Len(chunks) = 2

C7_Witness ==
    /\ Returned
    /\ WhitespaceOnly(content)
    /\ Len(content) >= 2
    /\ chunkSize = DefaultChunkSize
    /\ overlap = DefaultOverlap
    /\ Len(chunks) = 1

\* ------------------------------------------------------------------- C8
\* C8: every chunk has 0 <= startOffset < endOffset <= token count, at most
\* chunkSize tokens, and its content is the tokens startOffset..endOffset-1
\* joined by single spaces.
C8_ChunkIsTokenSlice ==
    \A n \in 1..Len(chunks) :
        LET c == chunks[n]
        IN /\ 0 <= c.startOffset
           /\ c.startOffset < c.endOffset
           /\ c.endOffset <= Len(words)
           /\ c.endOffset - c.startOffset <= chunkSize
           /\ c.content =
                 Join([k \in 1..(c.endOffset - c.startOffset) |-> words[c.startOffset + k]],
                      <<" ">>)

C8_Witness ==
    /\ Returned
    /\ Len(chunks) >= 2
    /\ chunks[2].endOffset - chunks[2].startOffset >= 2
    /\ chunks[2].startOffset >= 1

\* ------------------------------------------------------------------- C9
\* What the capability answered to a request, as the string the service
\* makes of it.
AnswerTo(kind, idx) ==
    IF responses[<<kind, idx>>] = "text"
    THEN (IF kind = "summarize" THEN SummaryText(idx) ELSE ContextText(idx))
    ELSE EmptyString

\* C9: a call of generateContextsWithRateLimit in which no contextualize
\* request fails returns, for every batchSize >= 1, as many contexts as there
\* are chunks, and result[k] is the answer to the contextualize request
\* issued for chunk k; the call rejects only when such a request failed.
C9_OneContextPerChunk ==
    /\ spc = "returned" =>
          /\ Len(contexts) = numChunks
          /\ \A k \in 0..(numChunks - 1) :
                /\ <<"contextualize", k>> \in DOMAIN responses
                /\ contexts[k + 1] = AnswerTo("contextualize", k)
    /\ spc = "rejected" =>
          \E k \in 0..(numChunks - 1) :
              /\ <<"contextualize", k>> \in DOMAIN responses
              /\ responses[<<"contextualize", k>>] = "error"

C9_Witness ==
    /\ spc = "returned"
    /\ numChunks >= 3
    /\ batchSize = 2
    /\ \A r \in DOMAIN responses : responses[r] = "text"
    /\ \A k \in 0..(numChunks - 1) : contexts[k + 1] = ContextText(k)

\* ------------------------------------------------------------------ C10
\* C10: with the option windowSize = w >= 1, the prompt of the contextualize
\* request for chunk k lists the pass-1 summaries of the indices
\* max(0, k-w) .. k-1, in index order, and nothing else: never the summary of
\* k or of a later chunk, and none at all for chunk 0.
C10_SlidingWindow ==
    ("windowSize" \in DOMAIN options /\ options["windowSize"] >= 1) =>
        \A k \in DOMAIN prompts :
            LET w == options["windowSize"]
                first == Max(0, k - w)
            IN /\ Len(prompts[k].hints) = k - first
               /\ \A j \in first..(k - 1) :
                     /\ <<"summarize", j>> \in DOMAIN responses
                     /\ prompts[k].hints[j - first + 1] = AnswerTo("summarize", j)
               /\ (k = 0 => prompts[k].hints = <<>>)

C10_Witness ==
    /\ "windowSize" \in DOMAIN options
    /\ options["windowSize"] = 1
    /\ 2 \in DOMAIN prompts
    /\ prompts[2].hints = <<SummaryText(1)>>
    /\ 0 \in DOMAIN prompts
    /\ prompts[0].hints = <<>>

\* ------------------------------------------------------------------ C11
\* The requests of a kind that have been issued, and those answered.
Issued(kind) == {r \in inflight \cup DOMAIN responses : r[1] = kind}
Answered(kind) == {r \in DOMAIN responses : r[1] = kind}

\* C11: in generateContextsWithRateLimit and in generateContextsForChunks
\* alike, a contextualize request is issued only after the summarize
\* requests of all chunks have been issued and answered: whenever some
\* contextualize request exists, no summarize request is in flight and every
\* chunk's summarize request has its answer.
C11_FullBarrier ==
    Issued("contextualize") # {} =>
        /\ Answered("summarize") = {<<"summarize", k>> : k \in 0..(numChunks - 1)}
        /\ \A r \in inflight : r[1] # "summarize"
        /\ Len(summaries) = numChunks

C11_Witness ==
    /\ <<"contextualize", 0>> \in inflight
    /\ numChunks >= 3
    /\ spc \in {"pass2_wait", "plain2_wait"}
    /\ Cardinality(Answered("summarize")) = numChunks

\* ------------------------------------------------------------------ C12
\* Positions of generateContextsWithRateLimit inside pass 1, and after it.
InPass1 == spc \in {"pass1", "pass1_wait", "pass1_delay"}
AfterPass1 == spc \in {"pass2", "pass2_wait", "pass2_delay", "returned", "rejected"}

Failed(kind) == {r \in Answered(kind) : responses[r] = "error"}

\* C12: whatever subset of the summarize requests fails, summarizeChunk
\* resolves with '' for each failed chunk and never rejects, so the call does
\* not end in pass 1; when the last batch has settled pass 1 is left with one
\* summary per chunk ('' for the failed ones) and the only step open is the
\* start of pass 2.
C12_Pass1Resilient ==
    /\ spc = "pass1_wait" =>
          \A k \in DOMAIN promises :
              /\ promises[k].state # "rejected"
              /\ <<"summarize", k>> \in Failed("summarize")
                    => promises[k] = Fulfilled(EmptyString)
    /\ \A j \in 1..Len(summaries) :
          <<"summarize", j - 1>> \in Failed("summarize") => summaries[j] = EmptyString
    /\ InPass1 => spc # "rejected" /\ Issued("contextualize") = {}
    /\ (spc = "pass1" /\ ~(i < numChunks)) =>
          /\ Len(summaries) = numChunks
          /\ ENABLED Pass1Done
    /\ AfterPass1 => Len(summaries) = numChunks

C12_Witness ==
    /\ spc = "pass2_wait"
    /\ numChunks >= 3
    /\ <<"summarize", 1>> \in Failed("summarize")
    /\ <<"summarize", 0>> \in DOMAIN responses
    /\ responses[<<"summarize", 0>>] = "text"
    /\ summaries[1] = SummaryText(0)
    /\ summaries[2] = EmptyString

\* ------------------------------------------------------------------ C13
\* C13: once a contextualize request has failed, generateContextsWithRateLimit
\* can only reject: the pending Promise.all holds a rejection (so the batch is
\* never pushed) or the call has rejected, and it never returns contexts,
\* whatever was pushed for earlier batches or answered in the same batch.
C13_Pass2Fatal ==
    Failed("contextualize") # {} =>
        /\ spc \in {"pass2_wait", "rejected"}
        /\ spc = "pass2_wait" => (SomeRejected /\ ~AllFulfilled /\ ENABLED Pass2Reject)
        /\ spc # "returned"

C13_Witness ==
    /\ spc = "rejected"
    /\ batchSize = 2
    /\ Len(contexts) = 2
    /\ contexts[1] = ContextText(0)
    /\ {<<"contextualize", 2>>, <<"contextualize", 3>>} \subseteq DOMAIN responses
    /\ responses[<<"contextualize", 2>>] = "text"
    /\ responses[<<"contextualize", 3>>] = "error"

\* ------------------------------------------------------------------ C14
\* C14: whatever the number of items, the batchSize and the order in which
\* the requests of a batch are answered, the accumulated lists of both passes
\* hold, at every moment, at position k the result of the operation on item
\* k, and they grow by whole batches.
C14_OrderPreserved ==
    /\ \A j \in 1..Len(summaries) :
          /\ <<"summarize", j - 1>> \in Answered("summarize")
          /\ summaries[j] = AnswerTo("summarize", j - 1)
    /\ \A j \in 1..Len(contexts) :
          /\ <<"contextualize", j - 1>> \in Answered("contextualize")
          /\ contexts[j] = AnswerTo("contextualize", j - 1)
    /\ InPass1 => Len(summaries) \in {Min(i, numChunks), Min(i + batchSize, numChunks)}
    /\ spc \in {"pass2", "pass2_wait", "pass2_delay"} =>
          Len(contexts) \in {Min(i, numChunks), Min(i + batchSize, numChunks)}

\* The second request of the second batch was answered before the first, and
\* the first batch is already accumulated.
C14_Witness ==
    /\ spc = "pass2_wait"
    /\ batchSize = 2
    /\ i = 2
    /\ numChunks >= 4
    /\ promises[3].state = "fulfilled"
    /\ promises[2].state = "pending"
    /\ contexts = <<ContextText(0), ContextText(1)>>
    /\ summaries = <<SummaryText(0), SummaryText(1), SummaryText(2), SummaryText(3)>>

\* ------------------------------------------------------------------ C15
\* The chunk indices of the group the loop is at.
CurrentGroup == BatchIndices(i, batchSize, numChunks)

\* C15: in generateContextsWithRateLimit the groups run one after another:
\* every request in flight belongs to the group the loop is at, in the pass
\* the call is in, so at most batchSize requests are in flight at any moment.
C15_GroupsSequential ==
    /\ Cardinality(inflight) <= batchSize
    /\ \A r \in inflight :
          /\ r[2] \in CurrentGroup
          /\ r[1] = (IF InPass1 THEN "summarize" ELSE "contextualize")
    /\ spc \in {"pass1", "pass1_delay", "pass2", "pass2_delay", "returned"} => inflight = {}

C15_Witness ==
    /\ batchSize = 2
    /\ i = 2
    /\ spc = "pass2_wait"
    /\ inflight = {<<"contextualize", 2>>, <<"contextualize", 3>>}

\* ------------------------------------------------------------------ C16
\* A contextualize request has failed in the group the loop is at.
C16_GroupFailed == \E r \in Failed("contextualize") : r[2] \in CurrentGroup

\* C16: once a contextualize request of a group has failed, no request of a
\* later group is ever issued (no new request at all) and the call never
\* returns a result; the requests of the failing group that are still in
\* flight are not cancelled: they stay in flight until the capability
\* answers them, also after the call has rejected.
C16_FailFast ==
    [][ /\ C16_GroupFailed =>
              /\ C16_GroupFailed'
              /\ Issued("contextualize")' = Issued("contextualize")
              /\ Issued("summarize")' = Issued("summarize")
              /\ \A r \in Issued("contextualize") : r[2] < i + batchSize
              /\ spc' \in {"pass2_wait", "rejected"}
              /\ i' = i
        /\ \A r \in inflight : r \in inflight' \/ r \in DOMAIN responses'
      ]_vars

\* The call has rejected and a request of the failing group is still in
\* flight and can still be answered.
C16_Witness ==
    /\ spc = "rejected"
    /\ batchSize = 2
    /\ i = 0
    /\ numChunks >= 3
    /\ <<"contextualize", 1>> \in Failed("contextualize")
    /\ inflight = {<<"contextualize", 0>>}
    /\ ENABLED ContextualizeSettle(0, "text")

\* ------------------------------------------------------------------ C18
\* ceil(a / b) for a >= 0, b >= 1.
CeilDiv(a, b) == (a + b - 1) \div b

\* C18: for 0 <= overlap < chunkSize and L tokens, chunk n (counted from 0)
\* has startOffset n * (chunkSize - overlap) and endOffset
\* min(startOffset + chunkSize, L), and ceil(L / (chunkSize - overlap))
\* chunks are returned.
C18_OffsetsByStep ==
    overlap < chunkSize =>
        /\ \A n \in 1..Len(chunks) :
              /\ chunks[n].startOffset = (n - 1) * (chunkSize - overlap)
              /\ chunks[n].endOffset = Min(chunks[n].startOffset + chunkSize, Len(words))
        /\ Returned => Len(chunks) = CeilDiv(Len(words), chunkSize - overlap)

C18_Witness ==
    /\ Returned
    /\ overlap = 1
    /\ chunkSize = 3
    /\ Len(words) = 4
    /\ Len(chunks) = 2
    /\ chunks[2].startOffset = 2
    /\ chunks[2].endOffset = 4

\* ------------------------------------------------------------------ C19
\* C19: for overlap >= chunkSize the chunks are those of overlap = 0: chunk n
\* (counted from 0) spans [n * chunkSize, min((n + 1) * chunkSize, L)), each
\* chunk starts where the one before ends, and the returned
\* ceil(L / chunkSize) intervals are pairwise disjoint and partition [0, L).
C19_DegenerateOverlap ==
    overlap >= chunkSize =>
        /\ \A n \in 1..Len(chunks) :
              /\ chunks[n].startOffset = (n - 1) * chunkSize
              /\ chunks[n].endOffset = Min(n * chunkSize, Len(words))
              /\ n > 1 => chunks[n].startOffset = chunks[n - 1].endOffset
        /\ Returned =>
              /\ chunks = ChunkDocument(content, chunkSize, 0)
              /\ Len(chunks) = CeilDiv(Len(words), chunkSize)
              /\ \A m, n \in 1..Len(chunks) :
                    m # n => Interval(chunks[m]) \cap Interval(chunks[n]) = {}
              /\ UNION {Interval(chunks[n]) : n \in 1..Len(chunks)} = 0..(Len(words) - 1)

C19_Witness ==
    /\ Returned
    /\ overlap > chunkSize
    /\ chunkSize = 2
    /\ Len(words) = 4
    /\ Len(chunks) = 2
    /\ chunks[2].startOffset = 2

\* ------------------------------------------------------------------ C20
\* C20 as stated: content with fewer tokens than chunkSize yields exactly
\* one chunk, with chunkIndex 0, startOffset 0, endOffset L and the whole
\* content.
C20_ShortAsStated ==
    (Returned /\ Len(words) < chunkSize) =>
        chunks = << [content     |-> content,
                     chunkIndex  |-> 0,
                     startOffset |-> 0,
                     endOffset   |-> Len(words)] >>

\* Every run of whitespace in s is a single space.
SingleSpaced(s) ==
    \A k \in 1..(Len(s) - 1) : ~(s[k] \in Whitespace /\ s[k + 1] \in Whitespace)

\* C20 amended: content with L < chunkSize tokens, and overlap >= chunkSize
\* or chunkSize - overlap >= L, yields exactly one chunk, with chunkIndex 0,
\* startOffset 0, endOffset L and the tokens joined by single spaces as
\* content, which is the content itself when its whitespace runs are single
\* spaces.
C20_ShortDocument ==
    (/\ Returned
     /\ Len(words) < chunkSize
     /\ (overlap >= chunkSize \/ chunkSize - overlap >= Len(words))) =>
        /\ chunks = << [content     |-> Join(words, <<" ">>),
                        chunkIndex  |-> 0,
                        startOffset |-> 0,
                        endOffset   |-> Len(words)] >>
        /\ SingleSpaced(content) => chunks[1].content = content

C20_Witness ==
    /\ Returned
    /\ Len(words) = 3
    /\ chunkSize = TestChunkSize
    /\ overlap = TestOverlap
    /\ SingleSpaced(content)
    /\ Len(chunks) = 1
    /\ chunks[1].content = content

\* ---------------------------------------------------------------- C17
\* An ingestion that uses the context service.
ContextualIngest == useContextual /\ hasContextService

\* C17: an ingestion with a context service and useContextual hands the
\* chunk sequence of chunkDocument to the synthesizer, receives one context
\* per chunk, and stores chunk k with content = context, blank line, chunk
\* content when the context is non-empty (the bare content otherwise), with
\* the context as contextualPrefix and the bare content as originalContent.
C17_ContextPrepended ==
    ContextualIngest =>
        /\ ipc \notin {"chunk", "contextualize"} =>
            /\ allChunks.type = "array"
            /\ allChunks.value = ChunkContents(chunks)
        /\ ipc \in {"embed", "store", "returned"} =>
            Len(ingestContexts) = Len(chunks)
        /\ \A k \in 1..Len(stored) :
            /\ k \in DOMAIN ingestContexts
            /\ stored[k].content =
                 Contextualized(ingestContexts[k], chunks[k].content)
            /\ stored[k].contextualPrefix = ingestContexts[k]
            /\ stored[k].originalContent = chunks[k].content

\* What the calls of lines 138-149 do instead: the document string is bound
\* to allChunks; the call rejects and nothing is stored, except for the
\* empty document under useRateLimit, whose one chunk is stored bare.
C17_DocumentHandedOver ==
    (ContextualIngest /\ ipc \notin {"chunk", "contextualize"}) =>
        /\ allChunks = StringValue(content)
        /\ ingestContexts = <<>>
        /\ (useRateLimit /\ content = <<>>) \/ (ipc = "thrown" /\ stored = <<>>)
        /\ \A k \in 1..Len(stored) :
            /\ stored[k].content = chunks[k].content
            /\ stored[k].contextualPrefix = EmptyString

C17_Thrown ==
    /\ ContextualIngest
    /\ ~useRateLimit
    /\ Len(chunks) = 2
    /\ ipc = "thrown"
    /\ allChunks = StringValue(content)

C17_StoredBare ==
    /\ ContextualIngest
    /\ useRateLimit
    /\ ipc = "returned"
    /\ Len(stored) = 1
    /\ stored[1].contextualPrefix = EmptyString

\* ---------------------------------------------------------------- C21
\* The (chunkIndex, startOffset, endOffset) triples of a chunk sequence.
Triples(cs) ==
    [k \in 1..Len(cs) |-> <<cs[k].chunkIndex, cs[k].startOffset, cs[k].endOffset>>]

\* Documents of exactly L tokens: L words, each "a" or "ba", one space
\* between them.
TokenDocuments(L) ==
    {Join(ws, <<" ">>) : ws \in [1..L -> {<<"a">>, <<"b", "a">>}]}

\* The triple sequences chunkDocument returns for the documents of L tokens.
WordTriples(L, size, ov) ==
    {Triples(ChunkDocument(d, size, ov)) : d \in TokenDocuments(L)}

CharReturned == pc = "char_done"

\* C21: on L >= 1 units, chunkDocumentByCharacters (L characters) and
\* chunkDocument (any document of L tokens) return the same sequence of
\* (chunkIndex, startOffset, endOffset) triples, for every unit size >= 1
\* and every overlap >= 0.
C21_SameTriples ==
    (CharReturned /\ Len(content) >= 1) =>
        /\ \A d \in TokenDocuments(Len(content)) :
               Len(SplitWhitespace(d)) = Len(content)
        /\ WordTriples(Len(content), chunkSize, overlap) = {Triples(chunks)}

C21_Witness ==
    /\ CharReturned
    /\ Len(content) = MaxCharLen
    /\ Len(chunks) >= 3
    /\ 0 < overlap /\ overlap < chunkSize
    /\ WordTriples(Len(content), chunkSize, overlap) = {Triples(chunks)}

\* ---------------------------------------------------------------- C29
\* C29: chunkDocumentByCharacters returns no chunk for the empty string,
\* for which chunkDocument returns one chunk; for every non-empty string
\* it returns at least one chunk.
C29_EmptyString ==
    CharReturned =>
        IF content = <<>>
        THEN /\ chunks = <<>>
             /\ Len(ChunkDocument(content, chunkSize, overlap)) = 1
        ELSE Len(chunks) >= 1

C29_Witness ==
    /\ CharReturned
    /\ content = <<>>
    /\ chunks = <<>>
    /\ Len(ChunkDocument(content, chunkSize, overlap)) = 1

\* ---------------------------------------------------------------- C22
\* C22: for every configured windowSize >= 0, windowSize = 0 included, the
\* prompt of the contextualize request for chunk k lists exactly
\* min(windowSize, k) prior summaries; a service constructed with
\* windowSize = 0 shows no prior summary to any chunk.
C22_WindowAsConfigured ==
    "windowSize" \in DOMAIN options =>
        \A k \in DOMAIN prompts :
            Len(prompts[k].hints) = Min(options["windowSize"], k)

\* What the constructor does with windowSize = 0: the default takes its
\* place, and chunk k is shown min(DefaultWindowSize, k) summaries.
C22_ZeroIsDefault ==
    ("windowSize" \in DOMAIN options /\ options["windowSize"] = 0) =>
        /\ windowSize = DefaultWindowSize
        /\ \A k \in DOMAIN prompts :
            Len(prompts[k].hints) = Min(DefaultWindowSize, k)

C22_ZeroShowsTwo ==
    /\ "windowSize" \in DOMAIN options
    /\ options["windowSize"] = 0
    /\ 2 \in DOMAIN prompts
    /\ prompts[2].hints = <<SummaryText(0), SummaryText(1)>>

\* ---------------------------------------------------------------- C23
\* The positions of events at which a delay of the pass was scheduled.
Delays(kind) == {n \in DOMAIN events : events[n][1] = "delay" /\ events[n][2] = kind}

Suspended == spc \in {"pass1_delay", "pass2_delay"}

\* C23: in one pass over n >= 1 chunks with batchSize b >= 1 the call
\* suspends after every group but the last, ceil(n/b) - 1 times in all; a
\* suspension starts when a group has completed, with nothing in flight,
\* is followed by the issue of the next group, and none follows the last
\* group.
C23_DelayBetweenGroups ==
    (numChunks >= 1 /\ batchSize >= 1) =>
        /\ AfterPass1 =>
            Cardinality(Delays("summarize")) = CeilDiv(numChunks, batchSize) - 1
        /\ spc = "returned" =>
            Cardinality(Delays("contextualize")) = CeilDiv(numChunks, batchSize) - 1
        /\ \A kind \in {"summarize", "contextualize"} :
            /\ Cardinality(Delays(kind)) <= CeilDiv(numChunks, batchSize) - 1
            /\ \A n \in Delays(kind) :
                /\ n > 1
                /\ events[n - 1] = <<"join", kind, events[n][3]>>
                /\ events[n][3] + batchSize < numChunks
                /\ n < Len(events) =>
                     events[n + 1] = <<"issue", kind, events[n][3] + batchSize>>
        /\ Suspended =>
            /\ inflight = {}
            /\ events # <<>>
            /\ events[Len(events)][1] = "delay"

C23_Witness ==
    /\ numChunks = 3
    /\ batchSize = 2
    /\ spc = "returned"
    /\ Cardinality(Delays("summarize")) = 1
    /\ Cardinality(Delays("contextualize")) = 1
    /\ events[Len(events)] = <<"join", "contextualize", 2>>

\* ---------------------------------------------------------------- C24
\* C24: summaries is written once per index, during pass 1 only and in the
\* index order of the groups; in pass 2 it is only read and no entry
\* changes, so the prompt of every contextualize request is built from the
\* same complete array.
C24_SummariesWrittenOnce ==
    /\ [][summaries' # summaries =>
            /\ spc = "pass1_wait"
            /\ Len(summaries) = i
            /\ Len(summaries') = Min(i + batchSize, numChunks)
            /\ SubSeq(summaries', 1, Len(summaries)) = summaries]_vars
    /\ [](AfterPass1 =>
            /\ Len(summaries) = numChunks
            /\ \A k \in DOMAIN prompts :
                  prompts[k].hints = RelevantSummaries(summaries, k, windowSize))

C24_Witness ==
    /\ spc = "pass2_wait"
    /\ batchSize = 1
    /\ numChunks = 3
    /\ i = 2
    /\ Len(summaries) = 3
    /\ DOMAIN prompts = {0, 1, 2}

\* ---------------------------------------------------------------- C25
\* How often the request was issued.
TimesIssued(kind, idx) ==
    Cardinality({n \in DOMAIN events : events[n] = <<"issue", kind, idx>>})

Ended == spc \in {"returned", "rejected"}

\* C25: with batchSize >= 1 and every request answered in the end, a call
\* of generateContextsWithRateLimit ends: it returns one context per chunk
\* or it rejects.  No request is issued twice; by the end of pass 1 every
\* chunk has had its one summarize request, and a returned call has issued
\* one contextualize request per chunk.
C25_RunsToCompletion ==
    /\ <>Ended
    /\ [](/\ \A k \in 0..(MaxChunks - 1) :
               /\ TimesIssued("summarize", k) <= 1
               /\ TimesIssued("contextualize", k) <= 1
               /\ TimesIssued("summarize", k) = 1 =>
                     <<"summarize", k>> \in inflight \cup DOMAIN responses
          /\ AfterPass1 =>
               \A k \in 0..(numChunks - 1) : TimesIssued("summarize", k) = 1
          /\ spc = "returned" =>
               /\ Len(contexts) = numChunks
               /\ \A k \in 0..(numChunks - 1) : TimesIssued("contextualize", k) = 1)

C25_Witness ==
    /\ spc = "rejected"
    /\ numChunks = 3
    /\ batchSize = 1
    /\ Failed("summarize") = {<<"summarize", 0>>}
    /\ Failed("contextualize") = {<<"contextualize", 1>>}
    /\ TimesIssued("summarize", 0) = 1
    /\ TimesIssued("contextualize", 1) = 1
    /\ TimesIssued("contextualize", 2) = 0

\* ---------------------------------------------------------------- C26
\* The positions of events at which a request of the kind was issued.
IssuesOf(kind) == {n \in DOMAIN events : events[n][1] = "issue" /\ events[n][2] = kind}

\* C26: no delay separates the two passes: the first group of contextualize
\* requests is issued straight after the join of the last group of
\* summarize requests, so the last summarize group and the first
\* contextualize group, up to batchSize requests each, are issued with no
\* delay between them.
C26_NoDelayBetweenPasses ==
    \A n \in DOMAIN events :
        events[n] = <<"issue", "contextualize", 0>> =>
            /\ n > 1
            /\ events[n - 1][1] = "join"
            /\ events[n - 1][2] = "summarize"
            /\ events[n - 1][3] + batchSize >= numChunks
            /\ \A m \in IssuesOf("summarize") :
                  events[m][3] >= events[n - 1][3] =>
                      \A d \in m..n : events[d][1] # "delay"
            /\ ~Suspended \/ spc = "pass2_delay"

C26_Witness ==
    /\ numChunks = 2
    /\ batchSize = 2
    /\ spc = "pass2_wait"
    /\ events =
         << <<"issue", "summarize", 0>>, <<"issue", "summarize", 1>>,
            <<"join", "summarize", 0>>,
            <<"issue", "contextualize", 0>>, <<"issue", "contextualize", 1>> >>

\* ---------------------------------------------------------------- C27
AllRequests(kind) == {<<kind, k>> : k \in 0..(numChunks - 1)}

\* C27: generateContextsForChunks issues all N requests of a pass at once,
\* with no batching and no delay, so all N can be in flight together; still
\* no contextualize request is issued before every summarize request has
\* been answered, and the contexts are returned in chunk order.
C27_AllAtOnce ==
    /\ \A n \in DOMAIN events : events[n][1] # "delay"
    /\ spc = "plain" => events = <<>>
    /\ spc = "plain1_wait" =>
         /\ events = IssueEvents("summarize", 0..(numChunks - 1))
         /\ Issued("summarize") = AllRequests("summarize")
         /\ Issued("contextualize") = {}
    /\ spc \in {"plain2_wait", "returned", "rejected"} =>
         /\ events[numChunks + 1] = <<"join", "summarize", 0>>
         /\ SubSeq(events, numChunks + 2, 2 * numChunks + 1) =
               IssueEvents("contextualize", 0..(numChunks - 1))
         /\ Answered("summarize") = AllRequests("summarize")
         /\ Issued("contextualize") = AllRequests("contextualize")
         /\ Len(summaries) = numChunks
    /\ spc = "returned" =>
         /\ Len(contexts) = numChunks
         /\ \A k \in 0..(numChunks - 1) :
               /\ <<"contextualize", k>> \in DOMAIN responses
               /\ contexts[k + 1] = AnswerTo("contextualize", k)

C27_Witness ==
    /\ spc = "plain2_wait"
    /\ numChunks = MaxPlainChunks
    /\ numChunks > MaxBatchSize
    /\ inflight = AllRequests("contextualize")
    /\ Cardinality(inflight) = numChunks

\* ---------------------------------------------------------------- C28
\* The item the store loop is at (1-based position k), by method.
ItemToStore(k) ==
    IF ipc = "docs_store"
    THEN DocumentObject(documents, k)
    ELSE StoredDocument(chunks, contextualizedChunks, ingestContexts, k)

Storing == ipc \in {"store", "docs_store"}

\* C28: ingestDocuments and ingestDocumentWithContextualRetrieval store
\* their items one after another; when addDocument fails for item k the
\* call throws, returns no id, and items 0..k-1 stay stored: nothing is
\* rolled back.
C28_NoRollback ==
    /\ [][stored' # stored =>
            /\ Storing
            /\ Len(stored) = storeIndex
            /\ stored' = Append(stored, ItemToStore(storeIndex + 1))
            /\ storeIndex' = storeIndex + 1]_vars
    /\ [][(Storing /\ ipc' = "thrown") =>
            /\ stored' = stored
            /\ Len(stored) = storeIndex
            /\ \A k \in 1..storeIndex : stored[k] = ItemToStore(k)]_vars
    /\ [][ipc \notin {"thrown", "returned"}]_vars

C28_Witness ==
    /\ ipc = "thrown"
    /\ Len(documents) = 3
    /\ storeIndex = 2
    /\ stored = <<DocumentObject(documents, 1), DocumentObject(documents, 2)>>

C28_WitnessChunks ==
    /\ ipc = "thrown"
    /\ Len(chunks) = 3
    /\ storeIndex = 2
    /\ Len(stored) = 2
    /\ stored[2].chunkIndex = 1

\* ---------------------------------------------------------------- C30
\* The chunks whose summarize request left an empty summary by failing.
FailedSummaries == {r[2] : r \in Failed("summarize")}

\* C30: the window is positional: the empty summary of a failed summarize
\* request for chunk j keeps its slot, so the prompt of every chunk k with
\* j in max(0, k - windowSize) .. k-1 lists that empty entry at j's place
\* and still lists min(windowSize, k) entries; no earlier summary takes
\* its place.
C30_WindowPositional ==
    \A k \in DOMAIN prompts :
        LET first == Max(0, k - windowSize)
        IN /\ Len(prompts[k].hints) = Min(windowSize, k)
           /\ \A j \in first..(k - 1) :
                 /\ <<"summarize", j>> \in DOMAIN responses
                 /\ j \in FailedSummaries =>
                       prompts[k].hints[j - first + 1] = EmptyString
                 /\ j \notin FailedSummaries =>
                       prompts[k].hints[j - first + 1] = AnswerTo("summarize", j)

C30_Witness ==
    /\ windowSize = 1
    /\ FailedSummaries = {1}
    /\ <<"summarize", 0>> \in DOMAIN responses
    /\ responses[<<"summarize", 0>>] = "text"
    /\ 2 \in DOMAIN prompts
    /\ prompts[2].hints = <<EmptyString>>

====
